---- MODULE Spec2Model ----
(***************************************************************************)
(* A model of stark101rs: the prime field F_p, p = 3 * 2^30 + 1            *)
(* (src/src/field.rs), and the Merkle commitment over field elements with  *)
(* its authentication paths and their verifier (src/src/merkle.rs).        *)
(*                                                                         *)
(* Machine integers.  The program computes in u32, u64 and usize, and p    *)
(* itself is above 2^31, so a machine integer is modelled as a number      *)
(* written in base 2^15 with five digits, least significant first          *)
(* (capacity 2^75).  Five = <<5, 0, 0, 0, 0>> and p = <<1, 0, 3, 0, 0>>,   *)
(* since p = 3 * (2^15)^2 + 1.  Every product of two digits stays below    *)
(* 2^30.  The width of a type is a range check on such a number            *)
(* (FitsU32, FitsU64) and a truncating cast is AsU32.                      *)
(*                                                                         *)
(* Integer overflow.  rustc compiles +, - and * on integers to a panic     *)
(* when overflow checks are on (the dev profile) and to two's complement   *)
(* wrapping when they are off (the release profile).  Every operator that  *)
(* models such arithmetic takes the flag chk (overflow checks on) and      *)
(* yields either a number or Panic; the actions draw chk from BOOLEAN.     *)
(***************************************************************************)
EXTENDS Integers, Sequences, FiniteSets, TLC

(***************************************************************************)
(* Numbers in base 2^15                                                    *)
(***************************************************************************)
Base == 2^15

\* The outcome of an operation that aborted (panic!, a failed assert!, a
\* failed unwrap, an index out of bounds, an overflow under overflow checks).
Panic == <<"panic">>

\* The number n, for 0 <= n < 2^31.
Num(n) == <<n % Base, (n \div Base) % Base, n \div (Base * Base), 0, 0>>

\* The integer a number below 2^30 stands for (an index into a vector).
ToInt(x) == x[1] + Base * x[2]

\* x + y, exact: the fifth digit is left unreduced.
Add(x, y) ==
    LET s1 == x[1] + y[1]
        s2 == x[2] + y[2] + (s1 \div Base)
        s3 == x[3] + y[3] + (s2 \div Base)
        s4 == x[4] + y[4] + (s3 \div Base)
        s5 == x[5] + y[5] + (s4 \div Base)
    IN  <<s1 % Base, s2 % Base, s3 % Base, s4 % Base, s5>>

\* x - y, exact; a negative difference shows as a negative fifth digit.
Sub(x, y) ==
    LET d1 == x[1] - y[1]
        d2 == x[2] - y[2] + (d1 \div Base)
        d3 == x[3] - y[3] + (d2 \div Base)
        d4 == x[4] - y[4] + (d3 \div Base)
        d5 == x[5] - y[5] + (d4 \div Base)
    IN  <<d1 % Base, d2 % Base, d3 % Base, d4 % Base, d5>>

\* x < y
Less(x, y) ==
    \/ x[5] < y[5]
    \/ x[5] = y[5] /\ x[4] < y[4]
    \/ x[5] = y[5] /\ x[4] = y[4] /\ x[3] < y[3]
    \/ x[5] = y[5] /\ x[4] = y[4] /\ x[3] = y[3] /\ x[2] < y[2]
    \/ x[5] = y[5] /\ x[4] = y[4] /\ x[3] = y[3] /\ x[2] = y[2] /\ x[1] < y[1]

\* x * d for one digit d.
MulDigit(x, d) ==
    LET t1 == x[1] * d
        t2 == x[2] * d + (t1 \div Base)
        t3 == x[3] * d + (t2 \div Base)
        t4 == x[4] * d + (t3 \div Base)
        t5 == x[5] * d + (t4 \div Base)
    IN  <<t1 % Base, t2 % Base, t3 % Base, t4 % Base, t5>>

\* x * 2^15
ShiftDigit(x) == <<0, x[1], x[2], x[3], x[4] + Base * x[5]>>

\* x * y for x, y < 2^45 (three digits each), exact: schoolbook rows.
Mul(x, y) ==
    Add(Add(MulDigit(x, y[1]), ShiftDigit(MulDigit(x, y[2]))),
        ShiftDigit(ShiftDigit(MulDigit(x, y[3]))))

\* x \div d and x % d for a small divisor d (2 <= d <= 2^15): short division.
DivSmall(x, d) ==
    LET c5 == x[5]
        c4 == (c5 % d) * Base + x[4]
        c3 == (c4 % d) * Base + x[3]
        c2 == (c3 % d) * Base + x[2]
        c1 == (c2 % d) * Base + x[1]
    IN  [quot |-> <<c1 \div d, c2 \div d, c3 \div d, c4 \div d, c5 \div d>>,
         rem  |-> c1 % d]

Zero32 == Num(0)
TwoPow32 == <<0, 0, 4, 0, 0>>
TwoPow64 == <<0, 0, 0, 0, 16>>
FitsU32(x) == x[5] >= 0 /\ Less(x, TwoPow32)
FitsU64(x) == x[5] >= 0 /\ Less(x, TwoPow64)

\* `x as u32`: the low 32 bits (also of a negative difference).
AsU32(x) == <<x[1], x[2], x[3] % 4, 0, 0>>

\* 2^k for 0 <= k < 75.
Pow2(k) == [i \in 1..5 |-> IF i = (k \div 15) + 1 THEN 2^(k % 15) ELSE 0]

\* The number of bits of x (0 for zero): the length of format!("{:b}", x) for x > 0.
BitLen(x) ==
    LET top == CHOOSE i \in 0..5 : (i = 0 \/ x[i] # 0) /\ \A j \in (i + 1)..5 : x[j] = 0
    IN  IF top = 0 THEN 0
        ELSE 15 * (top - 1) + (CHOOSE b \in 1..30 : 2^(b - 1) <= x[top] /\ x[top] < 2^b)

\* Bit i of x (bit 0 is the least significant), for i < 75.
Bit(x, i) == (x[(i \div 15) + 1] \div (2^(i % 15))) % 2

\* The characters of a string: a string is a sequence of symbols, a symbol is
\* a one-tuple holding a character, or a digest symbol (see digest below).
Ch(c) == <<c>>
DigitChars == <<"0", "1", "2", "3", "4", "5", "6", "7", "8", "9">>

\* format!("{:b}", x): the binary digits of x, most significant first; "0" for zero.
Binary(x) ==
    IF BitLen(x) = 0 THEN <<"0">>
    ELSE [i \in 1..BitLen(x) |-> IF Bit(x, BitLen(x) - i) = 1 THEN "1" ELSE "0"]

\* The decimal digits of x, most significant first, no leading zeros; "0" for zero.
RECURSIVE Decimal(_)
Decimal(x) ==
    LET d == DivSmall(x, 10)
    IN  IF d.quot = Zero32 THEN <<Ch(DigitChars[d.rem + 1])>>
        ELSE Append(Decimal(d.quot), Ch(DigitChars[d.rem + 1]))

(***************************************************************************)
(* Checked and wrapping machine arithmetic                                 *)
(***************************************************************************)
\* x + y in u32.
U32Add(chk, x, y) ==
    IF x = Panic \/ y = Panic THEN Panic
    ELSE LET s == Add(x, y)
         IN  IF FitsU32(s) THEN s ELSE IF chk THEN Panic ELSE AsU32(s)

\* x - y in u32.
U32Sub(chk, x, y) ==
    IF x = Panic \/ y = Panic THEN Panic
    ELSE LET d == Sub(x, y)
         IN  IF FitsU32(d) THEN d ELSE IF chk THEN Panic ELSE AsU32(d)

\* x * y in u64, for x, y that were widened from u32.
U64Mul(chk, x, y) ==
    IF x = Panic \/ y = Panic THEN Panic
    ELSE LET m == Mul(x, y)
         IN  IF FitsU64(m) THEN m ELSE IF chk THEN Panic ELSE <<m[1], m[2], m[3], m[4], m[5] % 16>>

(***************************************************************************)
(* field.rs: FieldElement                                                  *)
(*                                                                         *)
(* A FieldElement is modelled by its val: p and generator are the same in  *)
(* every instance, and == compares val alone.                              *)
(***************************************************************************)
\* let p = 3 * 2u32.pow(30) + 1
P == Add(MulDigit(Pow2(30), 3), Num(1))

\* x % p for x < 2^75.  With q = x \div (p - 1) and r = x % (p - 1), which are a
\* short division by 3 of the digits above 2^30 (p - 1 = 3 * 2^30), x is
\* q * p + (r - q), so x % p is r + (p - (q % p)) less p when that reaches p.
RECURSIVE ModP(_)
ModP(x) ==
    IF Less(x, P) THEN x
    ELSE LET d == DivSmall(<<x[3], x[4], x[5], 0, 0>>, 3)
             s == Add(<<x[1], x[2], d.rem, 0, 0>>, Sub(P, ModP(d.quot)))
         IN  IF Less(s, P) THEN s ELSE Sub(s, P)

\* x.modulo(p) of the modulo crate, which is x % p on unsigned integers.
Modulo(x) == IF x = Panic THEN Panic ELSE ModP(x)

\* x as u32
Trunc32(x) == IF x = Panic THEN Panic ELSE AsU32(x)

new(val) == Modulo(val)
zero == new(Num(0))
one == new(Num(1))
get_prime == Add(MulDigit(Pow2(30), 3), Num(1))

\* impl Add: Self::new((self.val + other.val).modulo(self.p))
add(chk, self, other) == new(Modulo(U32Add(chk, self, other)))

\* impl Sub
sub(chk, self, other) ==
    IF Less(self, other)
    THEN new(Modulo(U32Sub(chk, U32Add(chk, P, self), other)))
    ELSE new(Modulo(U32Sub(chk, self, other)))

\* (x as u64 * y as u64 % p as u64) as u32
MulModU32(chk, x, y) == Trunc32(Modulo(U64Mul(chk, x, y)))

\* impl Mul
mul(chk, self, other) == new(MulModU32(chk, self, other))

\* impl AddAssign, SubAssign, MulAssign: the new self.val
add_assign(chk, self, other) == Modulo(U32Add(chk, self, other))

sub_assign(chk, self, other) ==
    IF Less(self, other)
    THEN Modulo(U32Sub(chk, U32Add(chk, P, self), other))
    ELSE Modulo(U32Sub(chk, self, other))

mul_assign(chk, self, other) == Trunc32(Modulo(U64Mul(chk, self, other)))

\* pow: the locals before the loop, and one iteration of `while exponent > 0`.
PowEnter(self, exp) == [base |-> self, result |-> Num(1), exponent |-> exp]

\* A variant of the iteration that multiplies on the even exponents.
PowIterEven(chk, l) ==
    [result   |-> IF l.exponent[1] % 2 = 0
                  THEN MulModU32(chk, l.result, l.base) ELSE l.result,
     base     |-> MulModU32(chk, l.base, l.base),
     exponent |-> DivSmall(l.exponent, 2).quot]

PowIter(chk, l) ==
    [result   |-> IF l.exponent[1] % 2 = 1
                  THEN MulModU32(chk, l.result, l.base) ELSE l.result,
     base     |-> MulModU32(chk, l.base, l.base),
     exponent |-> DivSmall(l.exponent, 2).quot]

(***************************************************************************)
(* merkle.rs: strings, the hash and the floating-point casts               *)
(***************************************************************************)
\* String::new()
EmptyString == <<>>

\* FieldElement's Display: the decimal digits of val.
to_string(val) == Decimal(val)

\* A hash that reads the first symbol of its input alone, and so collides.
digest_prefix(s) == << <<"sha256", SubSeq(s, 1, 1)>> >>

\* sha256::digest, taken as collision-free: the digest of s is a string of one
\* symbol that names s, so two digests are equal iff their inputs are, the
\* concatenation of two digests splits in one way only, and no digest is the
\* decimal rendering of a number.
digest(s) == << <<"sha256", s>> >>

\* HashMap::insert and HashMap::get on a map held as a function.
EmptyMap == [k \in {} |-> <<EmptyString, EmptyString>>]
Insert(m, k, v) == [x \in DOMAIN m \cup {k} |-> IF x = k THEN v ELSE m[x]]

\* x >> s for 0 <= s < 75
RECURSIVE ShiftRight(_, _)
ShiftRight(x, s) ==
    IF s = 0 THEN x
    ELSE IF s <= 15 THEN DivSmall(x, 2^s).quot
    ELSE ShiftRight(DivSmall(x, Base).quot, s - 15)

\* An integer x >= 1 cast to a float with `bits` bits of mantissa (24 for f32,
\* 53 for f64): x rounded to its `bits` leading bits, ties to even.  The value
\* of the float is again an integer.
RoundToBits(x, bits) ==
    IF BitLen(x) <= bits THEN x
    ELSE LET s    == BitLen(x) - bits
             q    == ShiftRight(x, s)
             r    == Sub(x, Mul(q, Pow2(s)))
             half == Pow2(s - 1)
             up   == Less(half, r) \/ (r = half /\ q[1] % 2 = 1)
         IN  Mul(IF up THEN Add(q, Num(1)) ELSE q, Pow2(s))

\* y.log2().ceil() as u32 for a float y whose value is an integer >= 1, with
\* log2 taken as exact: the least k with 2^k >= y.
CeilLog2(y) == IF y = Pow2(BitLen(y) - 1) THEN BitLen(y) - 1 ELSE BitLen(y)

\* 2_u32.pow(k): above 2^31 the multiplication in pow overflows.
U32Pow2(chk, k) == IF k < 32 THEN Pow2(k) ELSE IF chk THEN Panic ELSE Zero32

\* new, line 15: 2_u32.pow((data.len() as f32).log2().ceil() as u32), for len >= 1
NumLeaves(chk, len) == U32Pow2(chk, CeilLog2(RoundToBits(len, 24)))

\* new, line 16: (data.len() as f64).log2().ceil() as u32, for len >= 1
Height(len) == CeilLog2(RoundToBits(len, 53))

\* Vec::resize(n, value) on a vector held as a sequence.
Resize(data, n, value) == [i \in 1..n |-> IF i <= Len(data) THEN data[i] ELSE value]

(***************************************************************************)
(* merkle.rs: MerkleTree                                                   *)
(***************************************************************************)
\* recursive_build_tree(node_id) on the tree's data and facts: the digest of
\* the node and the facts after the call, or an abort (the index into data is
\* out of bounds, or 2 * node_id overflows).
RECURSIVE recursive_build_tree(_, _, _, _)
recursive_build_tree(chk, data, facts, node_id) ==
    LET data_len == Num(Len(data))
    IN  IF node_id = Panic THEN [abort |-> TRUE]
        ELSE IF ~Less(node_id, data_len)
        THEN LET id_in_data == ToInt(U32Sub(chk, node_id, data_len))
             IN  IF id_in_data >= Len(data) THEN [abort |-> TRUE]
                 ELSE LET leaf_data == to_string(data[id_in_data + 1])
                          hash == digest(leaf_data)
                      IN  [abort |-> FALSE, hash |-> hash,
                           facts |-> Insert(facts, hash, <<leaf_data, EmptyString>>)]
        ELSE LET left == recursive_build_tree(chk, data, facts,
                                              U32Add(chk, node_id, node_id))
             IN  IF left.abort THEN [abort |-> TRUE]
                 ELSE LET right == recursive_build_tree(chk, data, left.facts,
                                       U32Add(chk, U32Add(chk, node_id, node_id), Num(1)))
                      IN  IF right.abort THEN [abort |-> TRUE]
                          ELSE LET hash == digest(left.hash \o right.hash)
                               IN  [abort |-> FALSE, hash |-> hash,
                                    facts |-> Insert(right.facts, hash,
                                                     <<left.hash, right.hash>>)]

\* build_tree
build_tree(chk, data) == recursive_build_tree(chk, data, EmptyMap, Num(1))

\* MerkleTree::new(data): the tree, or an abort.
MerkleTree_new(chk, data) ==
    IF Len(data) = 0 THEN [abort |-> TRUE]
    ELSE LET num_leaves == NumLeaves(chk, Num(Len(data)))
             height == Height(Num(Len(data)))
         IN  IF num_leaves = Panic THEN [abort |-> TRUE]
             ELSE LET data_padded == Resize(data, ToInt(num_leaves), zero)
                      built == build_tree(chk, data_padded)
                  IN  IF built.abort THEN [abort |-> TRUE]
                      ELSE [abort |-> FALSE,
                            tree |-> [built |-> TRUE, data |-> data_padded,
                                      height |-> height, root |-> built.hash,
                                      facts |-> built.facts]]

\* get_authentication_path's loop from bit k of bits on: the decommitment,
\* or an abort when facts has no entry for cur (unwrap on None).
RECURSIVE WalkDown(_, _, _, _, _)
WalkDown(facts, cur, bits, k, decommitment) ==
    IF k > Len(bits) THEN [abort |-> FALSE, decommitment |-> decommitment]
    ELSE IF cur \notin DOMAIN facts THEN [abort |-> TRUE]
    ELSE LET left == facts[cur][1]
             right == facts[cur][2]
         IN  IF bits[k] = "0"
             THEN WalkDown(facts, left, bits, k + 1, Append(decommitment, right))
             ELSE WalkDown(facts, right, bits, k + 1, Append(decommitment, left))

\* get_authentication_path(leaf_id)
get_authentication_path(chk, t, leaf_id) ==
    IF ~Less(leaf_id, Num(Len(t.data))) THEN [abort |-> TRUE]
    ELSE LET node_id == U32Add(chk, leaf_id, Num(Len(t.data)))
         IN  IF node_id = Panic THEN [abort |-> TRUE]
             ELSE WalkDown(t.facts, t.root, Binary(node_id), 2, <<>>)

\* A variant of the iteration that never looks at the bit.
HashStepLeft(cur, bits, decommitment, j) ==
    digest(cur \o decommitment[Len(decommitment) + 1 - j])

\* One iteration of verify_decommitment's loop: pair j of (the bits after the
\* first, reversed) zipped with (decommitment, reversed).
HashStep(cur, bits, decommitment, j) ==
    LET bit == bits[Len(bits) + 1 - j]
        auth == decommitment[Len(decommitment) + 1 - j]
    IN  IF bit = "0" THEN digest(cur \o auth) ELSE digest(auth \o cur)

\* The loop from pair j on, n pairs in all.  The running digest is bound to
\* its value before the next iteration starts, as the loop's assignment does.
RECURSIVE HashUp(_, _, _, _, _)
HashUp(cur, bits, decommitment, j, n) ==
    IF j > n THEN cur
    ELSE CHOOSE r \in {HashUp(next, bits, decommitment, j + 1, n) :
                          next \in {HashStep(cur, bits, decommitment, j)}} : TRUE

\* How many pairs the zip yields: the shorter of its two sides.
ZipLen(bits, decommitment) ==
    IF Len(bits) - 1 < Len(decommitment) THEN Len(bits) - 1 ELSE Len(decommitment)

\* A variant that takes the bits of leaf_id itself, without adding leaf_num.
verify_decommitment_no_offset(chk, leaf_id, leaf_data, decommitment, root) ==
    LET bin_node_id == Binary(leaf_id)
    IN  [abort |-> FALSE,
         res |-> HashUp(digest(to_string(leaf_data)), bin_node_id,
                        decommitment, 1,
                        ZipLen(bin_node_id, decommitment)) = root]

\* verify_decommitment(leaf_id, leaf_data, decommitment, root)
verify_decommitment(chk, leaf_id, leaf_data, decommitment, root) ==
    LET leaf_num == U32Pow2(chk, Len(decommitment))
        node_id == U32Add(chk, leaf_id, leaf_num)
    IN  IF node_id = Panic THEN [abort |-> TRUE, res |-> FALSE]
        ELSE LET bin_node_id == Binary(node_id)
             IN  [abort |-> FALSE,
                  res |-> HashUp(digest(to_string(leaf_data)), bin_node_id,
                                 decommitment, 1,
                                 ZipLen(bin_node_id, decommitment)) = root]

(***************************************************************************)
(* State                                                                   *)
(*                                                                         *)
(* a      the FieldElement the field operations are called on (self.val)   *)
(* pc     where the current call stands: "idle" (no call yet), "pow" (in   *)
(*        the loop of pow), "scan" (in the for loop of is_order), "built"  *)
(*        (a tree stands), "path" (a path was taken from it), "done"       *)
(* loc    the locals of the call under way: which operation called pow,    *)
(*        its arguments, and the locals of pow's loop                      *)
(* input  the Vec<FieldElement> the caller hands to MerkleTree::new         *)
(* tree   the MerkleTree built by MerkleTree::new, or NoTree               *)
(* path   the result of get_authentication_path, with its leaf_id          *)
(* shape  MerkleTree::new seen through lengths alone: the length of the    *)
(*        caller's Vec and, once built, the length of data and the height  *)
(* out    the outcome of the last call that returned or aborted            *)
(***************************************************************************)
VARIABLES a, pc, loc, input, tree, path, shape, out

vars == <<a, pc, loc, input, tree, path, shape, out>>

\* The variables of the Merkle tree, which the field operations leave alone.
merkle == <<input, tree, path, shape>>

NoLocals == [op |-> "none", other |-> Zero32, exp |-> Zero32, n |-> 0, i |-> 0,
             base |-> Zero32, result |-> Zero32, exponent |-> Zero32]
NoTree == [built |-> FALSE]
NoPath == [taken |-> FALSE]
NoShape == [len |-> Zero32, built |-> FALSE]
NoOut == [op |-> "none"]

\* The outcome of a field operation: the receiver before the call, the other
\* operand, the u32 argument (the exponent of pow, the n of is_order), whether
\* the call aborted, the FieldElement it returned (for a compound assignment,
\* the receiver after it) and, for is_order, the boolean it returned.
FieldOut(op, self, other, arg, r, flag) ==
    [op |-> op, self |-> self, other |-> other, arg |-> arg,
     abort |-> (r = Panic), val |-> IF r = Panic THEN Zero32 ELSE r, flag |-> flag]

(***************************************************************************)
(* Inputs                                                                  *)
(***************************************************************************)
\* The u32 values FieldElement::new is given: 0, 1, the generator 5, the 6 of
\* test_inverse, an element of order 3 and one of order 4, 2^30 - 1 (the least
\* val with p + val >= 2^32), p - 1 (of order 2) and u32::MAX - 1 (test_large_numbers).
RawInputs ==
    {Num(0), Num(1), Num(5), Num(6), Num(1610563584), Num(1013946479),
     Num(1073741823), Sub(P, Num(1)), Sub(TwoPow32, Num(2))}

FieldInputs == {new(v) : v \in RawInputs}

\* The exponents pow is called with: small ones, p - 2, p - 1 and u32::MAX.
ExpInputs ==
    {Num(0), Num(1), Num(2), Num(3), Num(10), Sub(P, Num(2)), Sub(P, Num(1)),
     Sub(TwoPow32, Num(1))}

\* is_order is called with n in 0..MaxOrder.
MaxOrder == 8

(***************************************************************************)
(* The field operations                                                    *)
(***************************************************************************)
InitField ==
    /\ a \in FieldInputs
    /\ pc = "idle"
    /\ loc = NoLocals
    /\ input = <<>>
    /\ tree = NoTree
    /\ path = NoPath
    /\ shape = NoShape
    /\ out = NoOut

\* self + other, self - other, self * other
FAdd ==
    /\ pc = "idle"
    /\ \E other \in FieldInputs, chk \in BOOLEAN :
          out' = FieldOut("add", a, other, Zero32, add(chk, a, other), FALSE)
    /\ pc' = "done"
    /\ UNCHANGED <<a, loc, merkle>>

FSub ==
    /\ pc = "idle"
    /\ \E other \in FieldInputs, chk \in BOOLEAN :
          out' = FieldOut("sub", a, other, Zero32, sub(chk, a, other), FALSE)
    /\ pc' = "done"
    /\ UNCHANGED <<a, loc, merkle>>

FMul ==
    /\ pc = "idle"
    /\ \E other \in FieldInputs, chk \in BOOLEAN :
          out' = FieldOut("mul", a, other, Zero32, mul(chk, a, other), FALSE)
    /\ pc' = "done"
    /\ UNCHANGED <<a, loc, merkle>>

\* self += other, self -= other, self *= other: an abort leaves self as it was.
FAddAssign ==
    /\ pc = "idle"
    /\ \E other \in FieldInputs, chk \in BOOLEAN :
          LET r == add_assign(chk, a, other)
          IN  /\ a' = IF r = Panic THEN a ELSE r
              /\ out' = FieldOut("add_assign", a, other, Zero32, r, FALSE)
    /\ pc' = "done"
    /\ UNCHANGED <<loc, merkle>>

FSubAssign ==
    /\ pc = "idle"
    /\ \E other \in FieldInputs, chk \in BOOLEAN :
          LET r == sub_assign(chk, a, other)
          IN  /\ a' = IF r = Panic THEN a ELSE r
              /\ out' = FieldOut("sub_assign", a, other, Zero32, r, FALSE)
    /\ pc' = "done"
    /\ UNCHANGED <<loc, merkle>>

FMulAssign ==
    /\ pc = "idle"
    /\ \E other \in FieldInputs, chk \in BOOLEAN :
          LET r == mul_assign(chk, a, other)
          IN  /\ a' = IF r = Panic THEN a ELSE r
              /\ out' = FieldOut("mul_assign", a, other, Zero32, r, FALSE)
    /\ pc' = "done"
    /\ UNCHANGED <<loc, merkle>>

\* The call of x.pow(exp) on behalf of operation op: the loop starts.
CallPow(op, other, x, exp, n, i) ==
    /\ pc' = "pow"
    /\ loc' = [op |-> op, other |-> other, exp |-> exp, n |-> n, i |-> i]
                 @@ PowEnter(x, exp)

\* a.pow(exp)
FPow ==
    /\ pc = "idle"
    /\ \E exp \in ExpInputs : CallPow("pow", a, a, exp, 0, 0)
    /\ UNCHANGED <<a, merkle, out>>

\* x.inverse() on behalf of op: panics on zero, else x.pow(p - 2).
CallInverse(op, x) ==
    IF x = zero
    THEN /\ pc' = "done"
         /\ out' = FieldOut(op, a, x, Zero32, Panic, FALSE)
         /\ UNCHANGED <<a, loc, merkle>>
    ELSE /\ CallPow(op, x, x, Sub(P, Num(2)), 0, 0)
         /\ UNCHANGED <<a, merkle, out>>

\* a.inverse()
FInverse ==
    /\ pc = "idle"
    /\ CallInverse("inverse", a)

\* a / other and a /= other: first other.inverse()
FDiv ==
    /\ pc = "idle"
    /\ \E other \in FieldInputs : CallInverse("div", other)

FDivAssign ==
    /\ pc = "idle"
    /\ \E other \in FieldInputs : CallInverse("div_assign", other)

\* a.is_order(n): assert!(n >= 1), then self.pow(n)
FIsOrder ==
    /\ pc = "idle"
    /\ \E n \in 0..MaxOrder :
          IF n >= 1
          THEN /\ CallPow("is_order", a, a, Num(n), n, 0)
               /\ UNCHANGED <<a, merkle, out>>
          ELSE /\ pc' = "done"
               /\ out' = FieldOut("is_order", a, a, Num(n), Panic, FALSE)
               /\ UNCHANGED <<a, loc, merkle>>

\* One iteration of pow's loop: while exponent > 0 { ... }
PowStep ==
    /\ pc = "pow"
    /\ loc.exponent # Zero32
    /\ \E chk \in BOOLEAN :
          LET l == PowIter(chk, loc)
          IN  IF l.result = Panic \/ l.base = Panic
              THEN /\ pc' = "done"
                   /\ out' = FieldOut(loc.op, a, loc.other, loc.exp, Panic, FALSE)
                   /\ UNCHANGED loc
              ELSE /\ loc' = [loc EXCEPT !.base = l.base, !.result = l.result,
                                         !.exponent = l.exponent]
                   /\ UNCHANGED <<pc, out>>
    /\ UNCHANGED <<a, merkle>>

\* pow's loop is over: Self::new(result) goes back to the caller.
PowDone == pc = "pow" /\ loc.exponent = Zero32

\* a.pow(exp) and a.inverse() return it.
PowReturn ==
    /\ PowDone
    /\ loc.op \in {"pow", "inverse"}
    /\ out' = FieldOut(loc.op, a, loc.other, loc.exp, new(loc.result), FALSE)
    /\ pc' = "done"
    /\ UNCHANGED <<a, loc, merkle>>

\* a / other: self * other_inv
DivReturn ==
    /\ PowDone
    /\ loc.op = "div"
    /\ \E chk \in BOOLEAN :
          out' = FieldOut("div", a, loc.other, Zero32, mul(chk, a, new(loc.result)), FALSE)
    /\ pc' = "done"
    /\ UNCHANGED <<a, loc, merkle>>

\* a /= other: *self *= other_inv
DivAssignReturn ==
    /\ PowDone
    /\ loc.op = "div_assign"
    /\ \E chk \in BOOLEAN :
          LET r == mul_assign(chk, a, new(loc.result))
          IN  /\ a' = IF r = Panic THEN a ELSE r
              /\ out' = FieldOut("div_assign", a, loc.other, Zero32, r, FALSE)
    /\ pc' = "done"
    /\ UNCHANGED <<loc, merkle>>

\* is_order: if self.pow(n) != one() { return false }, then the for loop starts at 2.
OrderFirst ==
    /\ PowDone
    /\ loc.op = "is_order"
    /\ loc.i = 0
    /\ IF new(loc.result) # one
       THEN /\ out' = FieldOut("is_order", a, a, Num(loc.n), Zero32, FALSE)
            /\ pc' = "done"
            /\ UNCHANGED loc
       ELSE /\ loc' = [loc EXCEPT !.i = 2]
            /\ pc' = "scan"
            /\ UNCHANGED out
    /\ UNCHANGED <<a, merkle>>

\* is_order: for i in 2..n { if n % i == 0 { self.pow(i) ... } }; return true
OrderScan ==
    /\ pc = "scan"
    /\ IF loc.i >= loc.n
       THEN /\ out' = FieldOut("is_order", a, a, Num(loc.n), Zero32, TRUE)
            /\ pc' = "done"
            /\ UNCHANGED loc
       ELSE IF loc.n % loc.i = 0
       THEN /\ CallPow("is_order", a, a, Num(loc.i), loc.n, loc.i)
            /\ UNCHANGED out
       ELSE /\ loc' = [loc EXCEPT !.i = loc.i + 1]
            /\ UNCHANGED <<pc, out>>
    /\ UNCHANGED <<a, merkle>>

\* is_order: if self.pow(i) == one() { return false }, else the next i.
OrderDivisor ==
    /\ PowDone
    /\ loc.op = "is_order"
    /\ loc.i >= 2
    /\ IF new(loc.result) = one
       THEN /\ out' = FieldOut("is_order", a, a, Num(loc.n), Zero32, FALSE)
            /\ pc' = "done"
            /\ UNCHANGED loc
       ELSE /\ loc' = [loc EXCEPT !.i = loc.i + 1]
            /\ pc' = "scan"
            /\ UNCHANGED out
    /\ UNCHANGED <<a, merkle>>

NextField ==
    \/ FAdd \/ FSub \/ FMul \/ FAddAssign \/ FSubAssign \/ FMulAssign
    \/ FPow \/ FInverse \/ FDiv \/ FDivAssign \/ FIsOrder
    \/ PowStep \/ PowReturn \/ DivReturn \/ DivAssignReturn
    \/ OrderFirst \/ OrderScan \/ OrderDivisor

SpecField == InitField /\ [][NextField]_vars

(***************************************************************************)
(* The Merkle tree on explicit data                                        *)
(***************************************************************************)
\* The caller's vectors have at most MaxLen elements, drawn from LeafValues:
\* zero (the padding value), one, 10 (two digits) and p - 1 (ten digits).
MaxLen == 3

LeafValues == {zero, one, new(Num(10)), new(Sub(P, Num(1)))}

DataInputs == UNION {[1..n -> LeafValues] : n \in 0..MaxLen}

\* The leaf_id arguments: every index of a tree of up to 2^2 leaves, as many
\* indices past its end, 2^31 and the two largest u32.
LeafIds ==
    {Num(k) : k \in 0..(2 * MaxLen + 1)}
        \cup {Pow2(31), Sub(TwoPow32, Num(2)), Sub(TwoPow32, Num(1))}

\* The strings a path entry or the root is replaced by: the empty string, a
\* string that is no digest, and the digest of the padding leaf.
TamperStrings == {EmptyString, <<Ch("x")>>, digest(to_string(zero))}

\* The decommitment arguments built from a genuine path p: p itself, p with
\* any one entry replaced, p without its first or last entry, p with one more
\* entry, and paths of 32 and 33 digests.
Decommitments(p) ==
    {p} \cup {[p EXCEPT ![k] = t] : k \in 1..Len(p), t \in TamperStrings}
        \cup {SubSeq(p, 2, Len(p)), SubSeq(p, 1, Len(p) - 1),
              Append(p, digest(to_string(zero))),
              [k \in 1..32 |-> digest(to_string(zero))],
              [k \in 1..33 |-> digest(to_string(zero))]}

InitMerkle ==
    /\ a = zero
    /\ pc = "idle"
    /\ loc = NoLocals
    /\ input \in DataInputs
    /\ tree = NoTree
    /\ path = NoPath
    /\ shape = NoShape
    /\ out = NoOut

\* MerkleTree::new(input)
MNew ==
    /\ pc = "idle"
    /\ \E chk \in BOOLEAN :
          LET r == MerkleTree_new(chk, input)
          IN  IF r.abort
              THEN /\ out' = [op |-> "new", abort |-> TRUE]
                   /\ pc' = "done"
                   /\ UNCHANGED tree
              ELSE /\ out' = [op |-> "new", abort |-> FALSE]
                   /\ pc' = "built"
                   /\ tree' = r.tree
    /\ UNCHANGED <<a, loc, input, path, shape>>

\* tree.get_authentication_path(leaf_id)
MGetPath ==
    /\ pc = "built"
    /\ \E leaf_id \in LeafIds, chk \in BOOLEAN :
          LET r == get_authentication_path(chk, tree, leaf_id)
          IN  IF r.abort
              THEN /\ out' = [op |-> "get_authentication_path",
                              leaf_id |-> leaf_id, abort |-> TRUE]
                   /\ pc' = "done"
                   /\ UNCHANGED path
              ELSE /\ out' = [op |-> "get_authentication_path",
                              leaf_id |-> leaf_id, abort |-> FALSE]
                   /\ pc' = "path"
                   /\ path' = [taken |-> TRUE, leaf_id |-> leaf_id,
                               decommitment |-> r.decommitment]
    /\ UNCHANGED <<a, loc, input, tree, shape>>

\* The arguments verify_decommitment is called with after the path of leaf i
\* was taken: the genuine value, path and root of leaf i under every leaf_id
\* and with every leaf value, and every decommitment with every root under
\* leaf_id i and under u32::MAX.
VerifyArgs ==
    {[leaf_id |-> j, leaf_data |-> v, decommitment |-> path.decommitment,
      root |-> tree.root] : j \in LeafIds, v \in LeafValues}
        \cup {[leaf_id |-> j, leaf_data |-> tree.data[ToInt(path.leaf_id) + 1],
               decommitment |-> d, root |-> r] :
                 j \in {path.leaf_id, Sub(TwoPow32, Num(1))},
                 d \in Decommitments(path.decommitment),
                 r \in {tree.root} \cup TamperStrings}

\* verify_decommitment(leaf_id, leaf_data, decommitment, root)
MVerify ==
    /\ pc = "path"
    /\ \E args \in VerifyArgs, chk \in BOOLEAN :
          LET r == verify_decommitment(chk, args.leaf_id, args.leaf_data,
                                       args.decommitment, args.root)
          IN  out' = [op |-> "verify_decommitment", leaf_id |-> args.leaf_id,
                      leaf_data |-> args.leaf_data,
                      decommitment |-> args.decommitment,
                      root |-> args.root, abort |-> r.abort, res |-> r.res]
    /\ pc' = "done"
    /\ UNCHANGED <<a, loc, input, tree, path, shape>>

NextMerkle == MNew \/ MGetPath \/ MVerify

SpecMerkle == InitMerkle /\ [][NextMerkle]_vars

(***************************************************************************)
(* The Merkle tree through lengths alone                                   *)
(***************************************************************************)
\* MerkleTree::new on a Vec of len elements, its elements left out: the length
\* of data after resize, how many elements of the caller's Vec data keeps
\* (resize truncates a longer Vec), and the height; or an abort.  With an
\* empty data, recursive_build_tree(1) indexes data[1] and aborts.
NewShape(chk, len) ==
    IF len = Zero32 THEN [abort |-> TRUE]
    ELSE LET num_leaves == NumLeaves(chk, len)
             height == Height(len)
         IN  IF num_leaves = Panic \/ num_leaves = Zero32 THEN [abort |-> TRUE]
             ELSE [abort |-> FALSE, data_len |-> num_leaves, height |-> height,
                   kept |-> IF Less(num_leaves, len) THEN num_leaves ELSE len]

\* get_authentication_path(leaf_id) on a tree of data_len leaves: how many
\* entries the path has (one for each bit of node_id after the first), or an
\* abort.
PathShape(chk, data_len, leaf_id) ==
    IF ~Less(leaf_id, data_len) THEN [abort |-> TRUE, path_len |-> 0]
    ELSE LET node_id == U32Add(chk, leaf_id, data_len)
         IN  IF node_id = Panic THEN [abort |-> TRUE, path_len |-> 0]
             ELSE [abort |-> FALSE, path_len |-> Len(Binary(node_id)) - 1]

\* The lengths of the caller's Vec: 0..MaxSmallLen, and the lengths around
\* the precision of f32 (2^24) and around the range of u32.
MaxSmallLen == 40

LenInputs ==
    {Num(k) : k \in 0..MaxSmallLen}
        \cup {Sub(Pow2(24), Num(1)), Pow2(24), Add(Pow2(24), Num(1)),
              MulDigit(Pow2(23), 3), Pow2(25), Pow2(31), Add(Pow2(31), Num(1)),
              MulDigit(Pow2(30), 3), Sub(TwoPow32, Num(1)), TwoPow32}

\* The leaf_id arguments for a tree of n leaves: its first two and last
\* indices, the first index past its end, and u32::MAX.
ShapeIds(n) == {Num(0), Num(1), Sub(n, Num(1)), n, Sub(TwoPow32, Num(1))}

InitShape ==
    /\ a = zero
    /\ pc = "idle"
    /\ loc = NoLocals
    /\ input = <<>>
    /\ tree = NoTree
    /\ path = NoPath
    /\ shape \in {[len |-> l, built |-> FALSE] : l \in LenInputs}
    /\ out = NoOut

\* MerkleTree::new on a Vec of shape.len elements
SNew ==
    /\ pc = "idle"
    /\ \E chk \in BOOLEAN :
          LET r == NewShape(chk, shape.len)
          IN  IF r.abort
              THEN /\ out' = [op |-> "new", abort |-> TRUE]
                   /\ pc' = "done"
                   /\ UNCHANGED shape
              ELSE /\ out' = [op |-> "new", abort |-> FALSE]
                   /\ pc' = "built"
                   /\ shape' = [len |-> shape.len, built |-> TRUE,
                                data_len |-> r.data_len, height |-> r.height,
                                kept |-> r.kept]
    /\ UNCHANGED <<a, loc, input, tree, path>>

\* tree.get_authentication_path(leaf_id)
SGetPath ==
    /\ pc = "built"
    /\ \E leaf_id \in ShapeIds(shape.data_len), chk \in BOOLEAN :
          LET r == PathShape(chk, shape.data_len, leaf_id)
          IN  out' = [op |-> "get_authentication_path", leaf_id |-> leaf_id,
                      abort |-> r.abort, path_len |-> r.path_len]
    /\ pc' = "done"
    /\ UNCHANGED <<a, loc, input, tree, path, shape>>

NextShape == SNew \/ SGetPath

SpecShape == InitShape /\ [][NextShape]_vars

(***************************************************************************)
(* Reference arithmetic: the mathematical values the claims compare with   *)
(***************************************************************************)
\* x * y mod p, from the exact product.
RefMul(x, y) == ModP(Mul(x, y))

\* x^e mod p by the defining equations x^0 = 1, x^(2k) = (x^k)^2 and
\* x^(2k+1) = (x^k)^2 * x.
RECURSIVE RefPow(_, _)
RefPow(x, e) ==
    IF e = Zero32 THEN Num(1)
    ELSE LET h == RefPow(x, DivSmall(e, 2).quot)
         IN  IF e[1] % 2 = 1 THEN RefMul(RefMul(h, h), x) ELSE RefMul(h, h)

\* x^n mod p for a small n, by n multiplications.
RECURSIVE RefPowInt(_, _)
RefPowInt(x, n) == IF n = 0 THEN Num(1) ELSE RefMul(RefPowInt(x, n - 1), x)

\* n is the multiplicative order of x: the least n >= 1 with x^n = 1.
IsMultiplicativeOrder(x, n) ==
    /\ n >= 1
    /\ RefPowInt(x, n) = Num(1)
    /\ \A k \in 1..(n - 1) : RefPowInt(x, k) # Num(1)

(***************************************************************************)
(* Claims about the field                                                  *)
(***************************************************************************)
\* C4: a + b, a - b, a * b and +=, -=, *= complete and yield exactly
\* (a + b) mod p, (a - b) mod p and (a * b) mod p: no overflow abort and no
\* result wrapped modulo 2^32.
C4_ExactArithmetic ==
    /\ out.op \in {"add", "add_assign"} =>
          ~out.abort /\ out.val = ModP(Add(out.self, out.other))
    /\ out.op \in {"sub", "sub_assign"} =>
          ~out.abort /\ out.val = ModP(Sub(Add(out.self, P), out.other))
    /\ out.op \in {"mul", "mul_assign"} =>
          ~out.abort /\ out.val = RefMul(out.self, out.other)
    /\ out.op \in {"add_assign", "sub_assign", "mul_assign"} => a = out.val

\* What pow and inverse returned is the power: inverse() is pow(p - 2), and
\* pow(exp) is self^exp mod p.
PowValue ==
    /\ out.op = "inverse" /\ ~out.abort =>
          /\ out.arg = Sub(P, Num(2))
          /\ out.val = RefPow(out.self, Sub(P, Num(2)))
          /\ mul(TRUE, out.self, out.val) = one
    /\ out.op = "pow" =>
          /\ ~out.abort
          /\ out.val = RefPow(out.self, out.arg)
          /\ out.arg = Zero32 => out.val = one
          /\ out.arg = Num(3) => out.val = RefPowInt(out.self, 3)
          /\ out.arg = Num(10) => out.val = RefPowInt(out.self, 10)

\* Every iteration of pow's loop takes one bit off the exponent, so the loop
\* ends after at most 32 iterations.
PowDecreases ==
    pc = "pow" /\ pc' = "pow" =>
        BitLen(loc.exponent) <= 32 /\ BitLen(loc'.exponent) = BitLen(loc.exponent) - 1

\* C5: for a # 0, a.inverse() is a.pow(p - 2) and a * a.inverse() = one();
\* pow(exp) returns self^exp mod p for every 32-bit exponent, pow(0) = one(),
\* and the loop of pow ends.
C5_InverseLaw == []PowValue /\ [][PowDecreases]_vars

\* C5's case: the inverse of a non-zero element has been returned.
C5_Witness ==
    out.op = "inverse" /\ ~out.abort /\ out.self = Num(6) /\ out.val # Zero32

\* C6: is_order(n) returns true iff n is exactly the multiplicative order of
\* self, for every self (one() and zero() included) and every n >= 1.
C6_IsOrderExact ==
    out.op = "is_order" /\ ~out.abort =>
        (out.flag <=> IsMultiplicativeOrder(out.self, ToInt(out.arg)))

(***************************************************************************)
(* Claims about the Merkle tree                                            *)
(***************************************************************************)
\* The value leaf i of the tree commits to: input[i] below the length of the
\* caller's Vec, zero at a padded index.
LeafValue(i) == IF ToInt(i) < Len(input) THEN input[ToInt(i) + 1] ELSE zero

\* verify_decommitment was called with the leaf_id the path was taken for.
VerifiedOwnLeaf == out.op = "verify_decommitment" /\ out.leaf_id = path.leaf_id

\* How many entries of the decommitment argument differ from the genuine path.
ChangedEntries ==
    Cardinality({k \in 1..Len(path.decommitment) :
                    out.decommitment[k] # path.decommitment[k]})

\* C1: for tree = MerkleTree::new(data) and every leaf index i below the
\* padded leaf count, verify_decommitment(i, v, get_authentication_path(i),
\* root) returns true, v being data[i] or zero at a padded index.
C1_RoundTrip ==
    /\ VerifiedOwnLeaf
    /\ out.leaf_data = LeafValue(path.leaf_id)
    /\ out.decommitment = path.decommitment
    /\ out.root = tree.root
    => ~out.abort /\ out.res

\* C1's case: the path of the padded leaf 3 of a three-element Vec verified.
C1_Witness ==
    /\ VerifiedOwnLeaf /\ Len(input) = 3 /\ input[1] = one /\ path.leaf_id = Num(3)
    /\ out.leaf_data = zero /\ out.decommitment = path.decommitment
    /\ Len(path.decommitment) = 2 /\ out.root = tree.root /\ out.res

\* C2: with the genuine path and root of an in-range leaf i, the verification
\* returns false when exactly one of the three is changed: the leaf value is
\* another field element, one digest of the path is another string, or the
\* root is another string.
C2_TamperDetection ==
    /\ VerifiedOwnLeaf
    /\ \/ /\ out.leaf_data # LeafValue(path.leaf_id)
          /\ out.decommitment = path.decommitment
          /\ out.root = tree.root
       \/ /\ out.leaf_data = LeafValue(path.leaf_id)
          /\ Len(out.decommitment) = Len(path.decommitment)
          /\ ChangedEntries = 1
          /\ out.root = tree.root
       \/ /\ out.leaf_data = LeafValue(path.leaf_id)
          /\ out.decommitment = path.decommitment
          /\ out.root # tree.root
    => ~out.abort /\ ~out.res

\* C2's case: the second digest of a two-digest path was replaced by the
\* digest of another leaf, and the verification returned false.
C2_Witness ==
    /\ VerifiedOwnLeaf /\ out.leaf_data = LeafValue(path.leaf_id)
    /\ Len(path.decommitment) = 2 /\ Len(out.decommitment) = 2
    /\ out.decommitment[1] = path.decommitment[1]
    /\ out.decommitment[2] = digest(to_string(zero))
    /\ path.decommitment[2] # digest(to_string(zero))
    /\ out.root = tree.root /\ ~out.abort /\ ~out.res

\* C3: verify_decommitment completes and returns a boolean for every 32-bit
\* leaf_id, every leaf value, every path and every root: computing 2^(length
\* of the path) and leaf_id + 2^(length of the path) never aborts.
C3_VerifyNeverFails == out.op = "verify_decommitment" => ~out.abort

\* The leaves of the tree are pairwise distinct.
DistinctLeaves ==
    Cardinality({tree.data[k] : k \in 1..Len(tree.data)}) = Len(tree.data)

\* verify_decommitment was called with the genuine value, path and root of
\* leaf i, but with another leaf_id j.
VerifiedOtherLeaf ==
    /\ out.op = "verify_decommitment"
    /\ DistinctLeaves
    /\ out.leaf_id # path.leaf_id
    /\ out.leaf_data = LeafValue(path.leaf_id)
    /\ out.decommitment = path.decommitment
    /\ out.root = tree.root

\* C10: with pairwise distinct leaves, the genuine proof of leaf i is not
\* accepted under any other 32-bit leaf_id j, also not under a j at or above
\* 2^(length of the path).
C10_IndexBinding == VerifiedOtherLeaf /\ ~out.abort => ~out.res

\* C10 as the code has it: the genuine proof of leaf i is rejected under
\* every other leaf_id j below 2^(length of the path).
C10_InRangeBinding ==
    VerifiedOtherLeaf /\ Less(out.leaf_id, Pow2(Len(out.decommitment)))
        => ~out.abort /\ ~out.res

\* C10's case: the proof of leaf 2 of a four-leaf tree was rejected under
\* leaf_id 3, the sibling of leaf 2.
C10_Witness ==
    /\ VerifiedOtherLeaf /\ Len(tree.data) = 4 /\ path.leaf_id = Num(2)
    /\ out.leaf_id = Num(3) /\ ~out.abort /\ ~out.res

(***************************************************************************)
(* Claims about the shape of the tree                                      *)
(***************************************************************************)
\* n is a power of two, and k is its logarithm
IsLog2(n, k) == k < 75 /\ n = Pow2(k)

\* C7: MerkleTree::new aborts on an empty Vec and on no other,
\* get_authentication_path aborts on a leaf_id at or above the padded leaf
\* count and on no other.
C7_AbortOnlyOnMisuse ==
    /\ out.op = "new" => (out.abort <=> shape.len = Zero32)
    /\ out.op = "get_authentication_path" =>
          (out.abort <=> ~Less(out.leaf_id, shape.data_len))

\* C8: the length N of data is the smallest power of two >= L, data keeps all
\* L elements of the caller's Vec, and height = ceil(log2(L)) = log2(N).
C8_ConstructionShape ==
    shape.built =>
        /\ IsLog2(shape.data_len, shape.height)
        /\ ~Less(shape.data_len, shape.len)
        /\ Less(shape.data_len, Add(shape.len, shape.len))
        /\ shape.kept = shape.len

\* C9: for every leaf_id < N the path has exactly height = log2(N) entries.
C9_PathLength ==
    out.op = "get_authentication_path" /\ ~out.abort =>
        /\ out.path_len = shape.height
        /\ IsLog2(shape.data_len, shape.height)

====
